---------------------------- MODULE Spec2Model ----------------------------
(***************************************************************************)
(* Twitch IRC line parsing, projection and line building                   *)
(* (src/twitchbot/domain/irc.py, src/twitchbot/domain/models.py).          *)
(*                                                                         *)
(* A Python str is a sequence of one-character strings.  None is the empty *)
(* tuple and a present optional value v is <<v>>.  A dict is a set of      *)
(* <<key, value>> pairs with unique keys.  A call ends in a record         *)
(* [exc, msg, val]: exc = "" for a normal return of val, otherwise the     *)
(* name of the exception that left the function.                           *)
(*                                                                         *)
(* The function bodies are modelled against the IrcMessage class as it is  *)
(* declared in models.py (fields tags, prefix, command, params,            *)
(* trailing_message; members nick, to_chat_message).  The declaration      *)
(* itself puts the field command, which has no default, after two fields   *)
(* that have one; dataclass() rejects that order with a TypeError when the *)
(* module is imported.  The model describes what the bodies do once the    *)
(* class exists with the declared members.                                 *)
(***************************************************************************)
EXTENDS Naturals, Sequences, FiniteSets, TLC

VARIABLES stage, input, output, origin

vars == <<stage, input, output, origin>>

-----------------------------------------------------------------------------
(* Bounds of the explored inputs *)

MaxLineLen == 5
MaxTagLen == 6
MaxBadgeLen == 3
MaxTextLen == 3
MaxChannelLen == 2

-----------------------------------------------------------------------------
(* Python values *)

None == <<>>

Some(v) == <<v>>

Return(v) == [exc |-> "", msg |-> "", val |-> v]

Raise(e, m) == [exc |-> e, msg |-> m, val |-> <<>>]

EmptyDict == {}

DictKeys(d) == {p[1] : p \in d}

DictGet(d, k, default) ==
    IF k \in DictKeys(d) THEN (CHOOSE p \in d : p[1] = k)[2] ELSE default

DictSet(d, k, v) == {p \in d : p[1] # k} \cup {<<k, v>>}

(* x or y, for an optional str x and a str y *)
OrElse(x, y) == IF x = None \/ x[1] = <<>> THEN y ELSE x[1]

-----------------------------------------------------------------------------
(* str methods *)

Whitespace == {" ", "\t"}

Lowercase ==
    <<"a", "b", "c", "d", "e", "f", "g", "h", "i", "j", "k", "l", "m",
      "n", "o", "p", "q", "r", "s", "t", "u", "v", "w", "x", "y", "z">>

Uppercase ==
    <<"A", "B", "C", "D", "E", "F", "G", "H", "I", "J", "K", "L", "M",
      "N", "O", "P", "Q", "R", "S", "T", "U", "V", "W", "X", "Y", "Z">>

Upper(c) ==
    IF \E i \in 1..Len(Lowercase) : Lowercase[i] = c
    THEN Uppercase[CHOOSE i \in 1..Len(Lowercase) : Lowercase[i] = c]
    ELSE c

StrUpper(s) == [i \in 1..Len(s) |-> Upper(s[i])]

RECURSIVE LStrip(_)
LStrip(s) == IF s # <<>> /\ Head(s) \in Whitespace THEN LStrip(Tail(s)) ELSE s

RECURSIVE RStrip(_)
RStrip(s) ==
    IF s # <<>> /\ s[Len(s)] \in Whitespace
    THEN RStrip(SubSeq(s, 1, Len(s) - 1))
    ELSE s

Strip(s) == RStrip(LStrip(s))

StartsWith(s, c) == s # <<>> /\ Head(s) = c

IsAt(s, sep, i) ==
    /\ i + Len(sep) - 1 <= Len(s)
    /\ SubSeq(s, i, i + Len(sep) - 1) = sep

(* sep in s *)
Contains(s, sep) == \E i \in 1..Len(s) : IsAt(s, sep, i)

RECURSIVE FindFrom(_, _, _)
FindFrom(s, sep, i) ==
    IF i > Len(s) THEN 0
    ELSE IF IsAt(s, sep, i) THEN i
    ELSE FindFrom(s, sep, i + 1)

(* s.split(sep, 1): one or two pieces *)
Split1(s, sep) ==
    LET i == FindFrom(s, sep, 1)
    IN  IF i = 0 THEN <<s>>
        ELSE <<SubSeq(s, 1, i - 1), SubSeq(s, i + Len(sep), Len(s))>>

(* s.split(c): every piece, the empty ones included *)
RECURSIVE SplitAll(_, _)
SplitAll(s, c) ==
    LET i == FindFrom(s, <<c>>, 1)
    IN  IF i = 0 THEN <<s>>
        ELSE <<SubSeq(s, 1, i - 1)>> \o SplitAll(SubSeq(s, i + 1, Len(s)), c)

RECURSIVE TakeWord(_)
TakeWord(s) ==
    IF s = <<>> \/ Head(s) \in Whitespace THEN <<>>
    ELSE <<Head(s)>> \o TakeWord(Tail(s))

(* s.split(): the maximal runs of non-whitespace characters *)
RECURSIVE SplitWS(_)
SplitWS(s) ==
    LET t == LStrip(s)
        w == TakeWord(t)
    IN  IF t = <<>> THEN <<>>
        ELSE <<w>> \o SplitWS(SubSeq(t, Len(w) + 1, Len(t)))

-----------------------------------------------------------------------------
(* models.py *)

PRIVMSG == <<"P", "R", "I", "V", "M", "S", "G">>

BADGES == <<"b", "a", "d", "g", "e", "s">>

DISPLAY_NAME == <<"d", "i", "s", "p", "l", "a", "y", "-", "n", "a", "m", "e">>

(* The fields the IrcMessage dataclass declares *)
IrcMessageFields == {"tags", "prefix", "command", "params", "trailing_message"}

(* The names an IrcMessage instance resolves: its fields and the members of
   the class body.  The class has slots, so an instance has no others. *)
IrcMessageAttributes == IrcMessageFields \cup {"nick", "to_chat_message"}

(* A call of the generated __init__ with keyword arguments kwargs *)
IrcMessage(kwargs) ==
    IF ~(DOMAIN kwargs \subseteq IrcMessageFields)
    THEN Raise("TypeError", "unexpected keyword argument")
    ELSE IF "command" \notin DOMAIN kwargs
    THEN Raise("TypeError", "missing required argument")
    ELSE Return([tags |-> IF "tags" \in DOMAIN kwargs
                          THEN kwargs["tags"] ELSE EmptyDict,
                 prefix |-> IF "prefix" \in DOMAIN kwargs
                            THEN kwargs["prefix"] ELSE None,
                 command |-> kwargs["command"],
                 params |-> IF "params" \in DOMAIN kwargs
                            THEN kwargs["params"] ELSE <<>>,
                 trailing_message |-> IF "trailing_message" \in DOMAIN kwargs
                                      THEN kwargs["trailing_message"] ELSE None])

nick(self) ==
    IF self.prefix = None THEN None
    ELSE Some(Split1(self.prefix[1], <<"!">>)[1])

RECURSIVE BadgeRoles(_)
BadgeRoles(badges) ==
    IF badges = <<>> THEN {}
    ELSE (IF Contains(Head(badges), <<"/">>)
          THEN {Split1(Head(badges), <<"/">>)[1]}
          ELSE {}) \cup BadgeRoles(Tail(badges))

_parse_badges_to_roles(badges) == BadgeRoles(SplitAll(badges, ","))

TwitchChatMessage(roles, channel, user, message, raw) ==
    [channel |-> channel, user |-> user, message |-> message,
     roles |-> roles, raw |-> raw]

(* The TwitchChatMessage(...) call of to_chat_message, given roles *)
ChatMessageOf(self, roles) ==
    TwitchChatMessage(
        roles,
        self.params[1],
        DictGet(self.tags, DISPLAY_NAME, OrElse(nick(self), <<>>)),
        OrElse(self.trailing_message, <<>>),
        self)

to_chat_message(self) ==
    IF self.command # PRIVMSG \/ self.params = <<>>
    THEN Return(None)
    ELSE IF "_parse_badges_to_roles" \notin IrcMessageAttributes
    THEN Raise("AttributeError", "_parse_badges_to_roles")
    ELSE Return(Some(ChatMessageOf(self,
             _parse_badges_to_roles(DictGet(self.tags, BADGES, <<>>)))))

-----------------------------------------------------------------------------
(* irc.py *)

RECURSIVE TagDict(_, _)
TagDict(kvs, d) ==
    IF kvs = <<>> THEN d
    ELSE LET kv == Head(kvs)
             pair == IF Contains(kv, <<"=">>)
                     THEN Split1(kv, <<"=">>)
                     ELSE <<kv, <<>>>>
         IN  IF kv = <<>> THEN TagDict(Tail(kvs), d)
             ELSE TagDict(Tail(kvs), DictSet(d, pair[1], pair[2]))

(* _parse_tags without its "if kv" filter: an empty segment becomes an entry *)
RECURSIVE TagDictUnfiltered(_, _)
TagDictUnfiltered(kvs, d) ==
    IF kvs = <<>> THEN d
    ELSE LET kv == Head(kvs)
             pair == IF Contains(kv, <<"=">>)
                     THEN Split1(kv, <<"=">>)
                     ELSE <<kv, <<>>>>
         IN  TagDictUnfiltered(Tail(kvs), DictSet(d, pair[1], pair[2]))

_parse_tags_unfiltered(raw) == TagDictUnfiltered(SplitAll(raw, ";"), EmptyDict)

_parse_tags(raw) == TagDict(SplitAll(raw, ";"), EmptyDict)

UnpackError == Raise("ValueError", "not enough values to unpack")

(* The statements of parse_irc_line before its return: the keyword
   arguments it computes, or the exception that ends it *)
ParseArguments(raw) ==
    LET line0 == Strip(raw)
        hasTags == StartsWith(line0, "@")
        tagSplit == Split1(line0, <<" ">>)
    IN
    IF line0 = <<>> THEN Raise("ValueError", "Empty IRC line")
    ELSE IF hasTags /\ Len(tagSplit) # 2 THEN UnpackError
    ELSE
    LET tags == IF hasTags THEN _parse_tags(Tail(tagSplit[1])) ELSE EmptyDict
        line1 == IF hasTags THEN tagSplit[2] ELSE line0
        hasPrefix == StartsWith(line1, ":")
        prefixSplit == Split1(line1, <<" ">>)
    IN
    IF hasPrefix /\ Len(prefixSplit) # 2 THEN UnpackError
    ELSE
    LET prefix == IF hasPrefix THEN Some(Tail(prefixSplit[1])) ELSE None
        line2 == IF hasPrefix THEN prefixSplit[2] ELSE line1
        hasTrailing == Contains(line2, <<" ", ":">>)
        trailSplit == Split1(line2, <<" ", ":">>)
        trailing == IF hasTrailing THEN Some(trailSplit[2]) ELSE None
        line3 == IF hasTrailing THEN trailSplit[1] ELSE line2
        parts == SplitWS(line3)
    IN
    IF parts = <<>> THEN Raise("IndexError", "list index out of range")
    ELSE Return([command |-> StrUpper(parts[1]),
                 params |-> Tail(parts),
                 prefix |-> prefix,
                 tags |-> tags,
                 trailing |-> trailing])

parse_irc_line(raw) ==
    LET args == ParseArguments(raw)
    IN  IF args.exc # "" THEN args ELSE IrcMessage(args.val)

build_privmsg(channel, text) ==
    PRIVMSG \o <<" ">> \o channel \o <<" ", ":">> \o text

build_pong(payload) == <<"P", "O", "N", "G", " ", ":">> \o payload

build_join(channel) == <<"J", "O", "I", "N", " ">> \o channel

build_pass_nick(token, nickname) ==
    << <<"P", "A", "S", "S", " ", "o", "a", "u", "t", "h", ":">> \o token,
       <<"N", "I", "C", "K", " ">> \o nickname >>

-----------------------------------------------------------------------------
(* The inputs explored *)

SeqsUpTo(S, n) == UNION {[1..k -> S] : k \in 0..n}

LineChars == {" ", "\t", ":", "@", "a", "="}

Lines == SeqsUpTo(LineChars, MaxLineLen)

TagStrings == SeqsUpTo({"a", "b", ";", "="}, MaxTagLen)

BadgeStrings == SeqsUpTo({"m", "s", "/", ","}, MaxBadgeLen)

Channels == SeqsUpTo({"#", "c"}, MaxChannelLen) \ {<<>>}

Texts == SeqsUpTo({"h", " ", ":"}, MaxTextLen)

Foo == <<"F", "o", "o">>

TagDicts ==
    { dn \cup bd :
        dn \in {EmptyDict, {<<DISPLAY_NAME, <<>>>>}, {<<DISPLAY_NAME, Foo>>}},
        bd \in {EmptyDict} \cup {{<<BADGES, b>>} : b \in BadgeStrings} }

IrcMessages ==
    [tags : TagDicts,
     prefix : {None, Some(<<>>), Some(<<"b", "a", "r">>),
               Some(<<"b", "a", "r", "!", "x">>)},
     command : {PRIVMSG, <<"P", "I", "N", "G">>, <<"p", "r", "i", "v", "m", "s", "g">>},
     params : {<<>>, << <<"#", "c">> >>, << <<"#", "c">>, <<"x">> >>},
     trailing_message : {None, Some(<<>>), Some(<<"h", "i">>)}]

-----------------------------------------------------------------------------
(* The calls.  stage names what output holds; input is the argument of the
   last call and origin the value the run started from. *)

Init ==
    /\ input = <<>>
    /\ \/ stage = "raw" /\ output \in {Return(l) : l \in Lines}
       \/ stage = "tagstring" /\ output \in {Return(t) : t \in TagStrings}
       \/ stage = "message" /\ output \in {Return(m) : m \in IrcMessages}
       \/ stage \in {"privmsg_intent", "auth_intent"}
          /\ output \in {Return(i) : i \in Channels \X Texts}
       \/ stage = "pong_intent" /\ output \in {Return(t) : t \in Texts}
       \/ stage = "join_intent" /\ output \in {Return(c) : c \in Channels}
    /\ origin = [kind |-> stage, val |-> output.val]

ParseIrcLine ==
    /\ stage \in {"raw", "line"}
    /\ input' = output.val
    /\ output' = parse_irc_line(output.val)
    /\ stage' = "parsed"
    /\ UNCHANGED origin

ParseTags ==
    /\ stage = "tagstring"
    /\ input' = output.val
    /\ output' = Return(_parse_tags(output.val))
    /\ stage' = "tags"
    /\ UNCHANGED origin

ToChatMessage ==
    /\ \/ stage = "message"
       \/ stage = "parsed" /\ output.exc = ""
    /\ input' = output.val
    /\ output' = to_chat_message(output.val)
    /\ stage' = "projected"
    /\ UNCHANGED origin

BuildPrivmsg ==
    /\ stage = "privmsg_intent"
    /\ input' = output.val
    /\ output' = Return(build_privmsg(output.val[1], output.val[2]))
    /\ stage' = "line"
    /\ UNCHANGED origin

BuildPong ==
    /\ stage = "pong_intent"
    /\ input' = output.val
    /\ output' = Return(build_pong(output.val))
    /\ stage' = "line"
    /\ UNCHANGED origin

BuildJoin ==
    /\ stage = "join_intent"
    /\ input' = output.val
    /\ output' = Return(build_join(output.val))
    /\ stage' = "line"
    /\ UNCHANGED origin

BuildPassNick ==
    /\ stage = "auth_intent"
    /\ input' = output.val
    /\ output' = Return(build_pass_nick(output.val[1], output.val[2]))
    /\ stage' = "handshake"
    /\ UNCHANGED origin

Next ==
    \/ ParseIrcLine
    \/ ParseTags
    \/ ToChatMessage
    \/ BuildPrivmsg
    \/ BuildPong
    \/ BuildJoin
    \/ BuildPassNick

Spec == Init /\ [][Next]_vars

-----------------------------------------------------------------------------
(* What the specification says of a line, stated on the text of the line *)

IsBlank(s) == \A i \in 1..Len(s) : s[i] \in Whitespace

EmptyLine == Raise("ValueError", "Empty IRC line")

(* The text after the first space of s; empty when s holds no space *)
AfterFirstSpace(s) ==
    IF \E i \in 1..Len(s) : s[i] = " "
    THEN LET i == CHOOSE k \in 1..Len(s) :
                      s[k] = " " /\ \A j \in 1..(k - 1) : s[j] # " "
         IN  SubSeq(s, i + 1, Len(s))
    ELSE <<>>

(* The trimmed line with its tags segment and its prefix removed *)
RemainingText(raw) ==
    LET line == Strip(raw)
        noTags == IF StartsWith(line, "@") THEN AfterFirstSpace(line) ELSE line
    IN  IF StartsWith(noTags, ":") THEN AfterFirstSpace(noTags) ELSE noTags

(* The positions of the remaining text where " :" starts *)
Markers(text) ==
    {i \in 1..(Len(text) - 1) : text[i] = " " /\ text[i + 1] = ":"}

FirstMarker(text) ==
    CHOOSE i \in Markers(text) : \A j \in Markers(text) : i <= j

(* The remaining text before its first " :" *)
Remainder(raw) ==
    LET text == RemainingText(raw)
    IN  IF Markers(text) = {} THEN text
        ELSE SubSeq(text, 1, FirstMarker(text) - 1)

(* The text after the first " :" of the remaining text, when there is one *)
TrailingText(raw) ==
    LET text == RemainingText(raw)
    IN  IF Markers(text) = {} THEN None
        ELSE Some(SubSeq(text, FirstMarker(text) + 2, Len(text)))

(* The non-empty segments of a ';'-separated string, as <<first, last>> *)
Segments(s, sep) ==
    {p \in (1..Len(s)) \X (1..Len(s)) :
        /\ p[1] <= p[2]
        /\ \A k \in p[1]..p[2] : s[k] # sep
        /\ (p[1] = 1 \/ s[p[1] - 1] = sep)
        /\ (p[2] = Len(s) \/ s[p[2] + 1] = sep)}

(* The part of seg before its first c (all of seg without one) and the part
   after it (empty without one) *)
Before(seg, c) ==
    IF \E i \in 1..Len(seg) : seg[i] = c
    THEN SubSeq(seg, 1, (CHOOSE i \in 1..Len(seg) :
                            seg[i] = c /\ \A j \in 1..(i - 1) : seg[j] # c) - 1)
    ELSE seg

After(seg, c) ==
    IF \E i \in 1..Len(seg) : seg[i] = c
    THEN SubSeq(seg, (CHOOSE i \in 1..Len(seg) :
                         seg[i] = c /\ \A j \in 1..(i - 1) : seg[j] # c) + 1,
                Len(seg))
    ELSE <<>>

IsChatCase(m) == m.command = PRIVMSG /\ m.params # <<>>

-----------------------------------------------------------------------------
(* Claims *)

(* C1: every raw line that is non-empty after trimming parses to an
   IrcMessage; the parser raises on none of them. *)
C1_ParseNeverRaises ==
    (stage = "parsed" /\ ~IsBlank(input)) => output.exc = ""

(* C2: an empty or whitespace-only line fails with EmptyLine; EmptyLine is
   the only failure the parser reports and no other input gets it. *)
C2_EmptyLineOnly ==
    stage = "parsed" =>
        /\ IsBlank(input) => output = EmptyLine
        /\ output.exc # "" => (output = EmptyLine /\ IsBlank(input))

(* C3: to_chat_message returns no result exactly when the command is not
   PRIVMSG or params is empty; otherwise it returns a chat message whose
   channel is params[0], whose text is the trailing text (empty when absent)
   and whose raw field is the source message. *)
C3_Projection ==
    stage = "projected" =>
        IF IsChatCase(input)
        THEN /\ output.exc = ""
             /\ output.val # None
             /\ output.val[1].channel = input.params[1]
             /\ output.val[1].message =
                    (IF input.trailing_message = None THEN <<>>
                     ELSE input.trailing_message[1])
             /\ output.val[1].raw = input
        ELSE output = Return(None)

(* C4: the user of the projected message is the display-name tag when it is
   present and non-empty, otherwise the prefix up to its first '!', and the
   empty string when there is no prefix. *)
C4_UserResolution ==
    (stage = "projected" /\ IsChatCase(input)) =>
        /\ output.exc = ""
        /\ output.val # None
        /\ output.val[1].user =
               (IF DictGet(input.tags, DISPLAY_NAME, <<>>) # <<>>
                THEN DictGet(input.tags, DISPLAY_NAME, <<>>)
                ELSE IF input.prefix # None
                THEN Before(input.prefix[1], "!")
                ELSE <<>>)

(* C5: parsing the line build_privmsg(channel, text) builds and projecting
   the result gives a chat message with that channel and that text. *)
C5_RoundTrip ==
    origin.kind = "privmsg_intent" =>
        /\ stage = "parsed" => output.exc = ""
        /\ stage = "projected" =>
               /\ output.exc = ""
               /\ output.val # None
               /\ output.val[1].channel = origin.val[1]
               /\ output.val[1].message = origin.val[2]

C7_OnlyParserFails ==
    stage \in {"projected", "tags", "line", "handshake"} => output.exc = ""

C9_TagParser ==
    stage = "tags" =>
        LET segs == {SubSeq(input, p[1], p[2]) : p \in Segments(input, ";")}
            tags == output.val
        IN  /\ output.exc = ""
            /\ DictKeys(tags) = {Before(seg, "=") : seg \in segs}
            /\ Cardinality(tags) = Cardinality(DictKeys(tags))
            /\ \A e \in tags : \E seg \in segs :
                   e = <<Before(seg, "=") , After(seg, "=")>>
            /\ input = <<>> => tags = EmptyDict

(* C9 witness: "a==;;b" has been parsed: a value that holds '=', an empty
   segment that is skipped and a segment without '='. *)
C9_Witness ==
    /\ stage = "tags"
    /\ input = <<"a", "=", "=", ";", ";", "b">>
    /\ output.val = {<< <<"a">>, <<"=">> >>, << <<"b">>, <<>> >>}

(* C10: the roles of the projected message are the parts before the first
   '/' of the comma-separated badges entries that hold a '/'. *)
C10_Roles ==
    (stage = "projected" /\ IsChatCase(input)) =>
        /\ output.exc = ""
        /\ output.val # None
        /\ output.val[1].roles =
               LET badges == DictGet(input.tags, BADGES, <<>>)
                   entries == {SubSeq(badges, p[1], p[2]) :
                                  p \in Segments(badges, ",")}
               IN  {Before(e, "/") : e \in {x \in entries :
                                               \E i \in 1..Len(x) : x[i] = "/"}}

-----------------------------------------------------------------------------
(* What the statements before the two failing calls compute.  The call
   IrcMessage(..., trailing=...) ends every parse that gets that far, and the
   lookup self._parse_badges_to_roles ends every projection of a PRIVMSG with
   a param; these properties are about the values computed up to there. *)

(* The command, params and trailing the parser hands to IrcMessage are the
   ones the specification describes. *)
Arguments_AsSpecified ==
    (stage = "parsed" /\ ParseArguments(input).exc = "") =>
        LET args == ParseArguments(input).val
        IN  /\ args.command # <<>>
            /\ args.command = StrUpper(SplitWS(Remainder(input))[1])
            /\ args.params = Tail(SplitWS(Remainder(input)))
            /\ args.trailing = TrailingText(input)

(* Before the call is reached the parser raises only on a blank line.
   (Violated: "@" and ":" raise ValueError at the unpacking of split(" ", 1),
   "@  :a" raises IndexError at parts[0].) *)
Arguments_AlwaysComputed ==
    (stage = "parsed" /\ ~IsBlank(input)) => ParseArguments(input).exc = ""

(* The channel, text, raw and roles to_chat_message passes to
   TwitchChatMessage are the ones the specification describes. *)
ChatFields_AsSpecified ==
    (stage = "projected" /\ IsChatCase(input)) =>
        LET badges == DictGet(input.tags, BADGES, <<>>)
            entries == {SubSeq(badges, p[1], p[2]) : p \in Segments(badges, ",")}
            chat == ChatMessageOf(input, _parse_badges_to_roles(badges))
        IN  /\ chat.channel = input.params[1]
            /\ chat.message = (IF input.trailing_message = None THEN <<>>
                               ELSE input.trailing_message[1])
            /\ chat.raw = input
            /\ chat.roles = {Before(e, "/") :
                                e \in {x \in entries :
                                          \E i \in 1..Len(x) : x[i] = "/"}}

(* The user it passes falls back to nick when display-name is empty.
   (Violated: tags.get('display-name', default) returns the empty value of a
   present tag, so the user is "" although the prefix is "bar".) *)
ChatFields_UserFallsBack ==
    (stage = "projected" /\ IsChatCase(input)) =>
        ChatMessageOf(input, {}).user =
            (IF DictGet(input.tags, DISPLAY_NAME, <<>>) # <<>>
             THEN DictGet(input.tags, DISPLAY_NAME, <<>>)
             ELSE IF input.prefix # None
             THEN Before(input.prefix[1], "!")
             ELSE <<>>)

(* The arguments parsed from a built PRIVMSG line carry the channel and the
   text.  (Violated: strip() removes the whitespace that ends the text.) *)
Arguments_RoundTrip ==
    (stage = "parsed" /\ origin.kind = "privmsg_intent") =>
        LET r == ParseArguments(input)
        IN  /\ r.exc = ""
            /\ r.val.command = PRIVMSG
            /\ r.val.params = <<origin.val[1]>>
            /\ OrElse(r.val.trailing, <<>>) = origin.val[2]

=============================================================================
